---- MODULE Spec2Model ----
(***************************************************************************)
(* Model of the MCP tools runner (src/mcp.py) and of the auto-context      *)
(* loader (src/scripts/autocontext.py): the persisted context cache, the   *)
(* access tracking, the budgeted merge of context sources, the command     *)
(* dispatcher, and the vector index the loader and the dispatcher call.    *)
(***************************************************************************)
EXTENDS Integers, Sequences, FiniteSets, TLC

VARIABLES
    disk,       \* content of .mcp/memory/context_cache.json
    clock,      \* datetime.utcnow(), counted in saves
    mem,        \* the ContextCache object the last handler built in memory
    result,     \* what the last operation returned (or that it raised)
    history,    \* the paths passed to track_file_access, oldest first
    fs,         \* the project's files: path -> words in its first 50 lines, -1 if none
    cmdline,    \* sys.argv as the runner was started
    module,     \* how the module the command maps to behaves when imported and run
    sysargv,    \* sys.argv as the runner leaves it
    rc,         \* the runner's return code (-1 before it ran)
    imports,    \* the modules the runner imported
    runs,       \* the handlers the runner called, each with the sys.argv it saw
    tree,       \* the project tree the index covers: path -> content, 0 if no file
    persisted,  \* the index file: the set of entries last saved
    ecache,     \* the embedding cache: content hash -> vector
    work,       \* the index a running reindex holds in memory
    todo,       \* the files a running reindex has not visited yet
    run,        \* the running reindex: its counts and the state it began from
    summary,    \* what the last completed reindex reported
    synced,     \* the last reindex completed without failure and no file changed since
    edits,      \* number of changes made to the tree
    seen        \* the snapshot a search in progress loaded

cacheVars == <<disk, clock, mem, result, history>>

mainVars == <<cmdline, module, sysargv, rc, imports, runs>>

\* what the cache handlers leave alone, and what the runner leaves alone
indexVars == <<tree, persisted, ecache, work, todo, run, summary, synced, edits, seen>>

nonCacheVars == <<fs, mainVars, indexVars>>

nonMainVars == <<cacheVars, fs, indexVars>>

nonIndexVars == <<cacheVars, fs, mainVars>>

vars == <<cacheVars, fs, mainVars, indexVars>>

(***************************************************************************)
(* Bounds of the model.                                                    *)
(***************************************************************************)
\* number of distinct files the tracking runs may touch (one more than the cap)
NumFiles == 21
\* number of calls of a tracking run that touch an already tracked file again
MaxReaccess == 1
\* number of saves a run with crashes makes
MaxSaves == 3
\* number of files a run with crashes tracks
CrashFiles == 2
\* longest arbitrary token text tried as a cache file
MaxTokens == 3
\* most members of an arbitrary JSON object tried as a cache file
MaxMembers == 2
\* most arguments after the command on the runner's command line
MaxArgs == 2
\* number of project files the context runs look at
ContextFiles == 3
\* number of track_file_access calls of a context run
MaxTracks == 4
\* largest token budget tried
MaxBudget == 5
\* most entries the vector index ranks for a query
MaxRanked == 4
\* number of track_file_access calls before a semantic query
MaxTracksBefore == 2
\* number of changes made to the indexed tree
MaxEdits == 3
\* number of reindex runs started
MaxRuns == 3

(***************************************************************************)
(* Sequences and insertion-ordered dictionaries (Python list and dict).    *)
(***************************************************************************)
Range(s) == {s[i] : i \in 1..Len(s)}

Min(a, b) == IF a < b THEN a ELSE b

\* s[:n]
Take(s, n) == SubSeq(s, 1, Min(n, Len(s)))

\* list.remove(x): drops the first occurrence only
RemoveFirst(s, x) ==
    LET i == CHOOSE k \in 1..Len(s) : s[k] = x /\ \A j \in 1..(k - 1) : s[j] # x
    IN  SubSeq(s, 1, i - 1) \o SubSeq(s, i + 1, Len(s))

\* a dict is a sequence of [k, v] items in insertion order
DictKeys(d) == {d[i].k : i \in 1..Len(d)}

\* dict.get(key, default)
DictGet(d, key, default) ==
    IF key \in DictKeys(d)
    THEN d[CHOOSE i \in 1..Len(d) : d[i].k = key].v
    ELSE default

\* d[key] = value: an existing key keeps its position, a new key goes last
DictSet(d, key, value) ==
    IF key \in DictKeys(d)
    THEN [i \in 1..Len(d) |-> IF d[i].k = key THEN [k |-> key, v |-> value] ELSE d[i]]
    ELSE Append(d, [k |-> key, v |-> value])

(***************************************************************************)
(* ContextCache and its JSON form.                                         *)
(***************************************************************************)
\* Python values carry their type: from_dict checks none, so a field of a
\* loaded cache holds whatever JSON value the file gave it
JList(items) == [ty |-> "list", items |-> items]
JObj(items) == [ty |-> "obj", items |-> items]
JStr(s) == [ty |-> "str", s |-> s]
JNum(n) == [ty |-> "num", n |-> n]

Fields == {"recent_files", "hot_files", "last_query", "last_task", "timestamp"}

\* ContextCache(): every field at its default
ContextCache ==
    [recent_files |-> JList(<<>>), hot_files |-> JObj(<<>>), last_query |-> JStr(""),
     last_task |-> JStr(""), timestamp |-> JStr("")]

\* tokens of a JSON text
LBrace == [t |-> "lbrace"]
RBrace == [t |-> "rbrace"]
Key(name) == [t |-> "key", name |-> name]
Val(j) == [t |-> "val", v |-> j]
Junk == [t |-> "junk"]

\* json.dump(asdict(cache)): the fields in declaration order
to_dict(cache) ==
    <<LBrace,
      Key("recent_files"), Val(cache.recent_files),
      Key("hot_files"), Val(cache.hot_files),
      Key("last_query"), Val(cache.last_query),
      Key("last_task"), Val(cache.last_task),
      Key("timestamp"), Val(cache.timestamp),
      RBrace>>

\* the text is one JSON object: braces around alternating keys and values
IsObjectText(toks) ==
    /\ Len(toks) >= 2
    /\ Len(toks) % 2 = 0
    /\ toks[1] = LBrace
    /\ toks[Len(toks)] = RBrace
    /\ \A i \in 2..(Len(toks) - 1) : toks[i].t = (IF i % 2 = 0 THEN "key" ELSE "val")

\* the members of an object text as a dict: a repeated key keeps its last value
RECURSIVE Members(_, _)
Members(toks, i) ==
    IF i < 2 THEN <<>>
    ELSE DictSet(Members(toks, i - 2), toks[i].name, toks[i + 1].v)

\* json.load: the parsed document, or a JSONDecodeError
json_load(toks) ==
    IF IsObjectText(toks)
    THEN [ok |-> TRUE, data |-> JObj(Members(toks, Len(toks) - 2))]
    ELSE IF Len(toks) = 1 /\ toks[1].t = "val"
    THEN [ok |-> TRUE, data |-> toks[1].v]
    ELSE [ok |-> FALSE]

\* from_dict dropping the keys that are no fields instead of raising
from_dict_lenient(data) ==
    IF data.ty = "obj"
    THEN [ok |-> TRUE,
          cache |-> [f \in Fields |->
                       IF f \in DictKeys(data.items)
                       THEN DictGet(data.items, f, ContextCache[f])
                       ELSE ContextCache[f]]]
    ELSE [ok |-> FALSE]

\* ContextCache.from_dict: cls(**data) raises TypeError unless data is a
\* mapping whose keys are all fields; a field left out takes its default
from_dict(data) ==
    IF data.ty = "obj" /\ DictKeys(data.items) \subseteq Fields
    THEN [ok |-> TRUE,
          cache |-> [f \in Fields |->
                       IF f \in DictKeys(data.items)
                       THEN DictGet(data.items, f, ContextCache[f])
                       ELSE ContextCache[f]]]
    ELSE [ok |-> FALSE]

\* the cache file
Absent == [kind |-> "absent"]
Unreadable == [kind |-> "unreadable"]
File(toks) == [kind |-> "text", toks |-> toks]

\* the body of load_cache's try block: open, json.load and from_dict, any of
\* which may raise
read_cache(file) ==
    IF file.kind = "unreadable" THEN [raised |-> TRUE]
    ELSE LET doc == json_load(file.toks)
         IN  IF ~doc.ok THEN [raised |-> TRUE]
             ELSE LET made == from_dict(doc.data)
                  IN  IF made.ok THEN [raised |-> FALSE, value |-> made.cache]
                      ELSE [raised |-> TRUE]

\* load_cache as the caller sees it: `except Exception: pass` falls through
\* to the default cache, as does a missing file
load_cache_call(file) ==
    IF file.kind = "absent" THEN [raised |-> FALSE, value |-> ContextCache]
    ELSE LET got == read_cache(file)
         IN  IF got.raised THEN [raised |-> FALSE, value |-> ContextCache]
             ELSE got

load_cache(file) == load_cache_call(file).value

\* datetime.utcnow().isoformat() + 'Z'
Stamp(now) == "T" \o ToString(now) \o "Z"

\* save_cache: stamps the cache, then writes the whole file
save_cache(cache, now) ==
    LET stamped == [cache EXCEPT !.timestamp = JStr(Stamp(now))]
    IN  [cache |-> stamped, file |-> File(to_dict(stamped))]

(***************************************************************************)
(* track_file_access                                                       *)
(***************************************************************************)
\* the cap on recent_files
MaxRecent == 20

RelPath(i) == "f" \o ToString(i) \o ".py"

\* track_file_access without the removal of the earlier occurrence
TouchKeepsOld(cache, path_str) ==
    LET recent == Take(<<path_str>> \o cache.recent_files.items, MaxRecent)
        hot == DictSet(cache.hot_files.items, path_str,
                       DictGet(cache.hot_files.items, path_str, 0) + 1)
    IN  [cache EXCEPT !.recent_files = JList(recent), !.hot_files = JObj(hot)]

\* track_file_access pruning the counters of the files the cap evicted
TouchPrunesHot(cache, path_str) ==
    LET dropped == IF path_str \in Range(cache.recent_files.items)
                   THEN RemoveFirst(cache.recent_files.items, path_str)
                   ELSE cache.recent_files.items
        recent == Take(<<path_str>> \o dropped, MaxRecent)
        hot == DictSet(cache.hot_files.items, path_str,
                       DictGet(cache.hot_files.items, path_str, 0) + 1)
    IN  [cache EXCEPT !.recent_files = JList(recent),
                      !.hot_files = JObj(SelectSeq(hot, LAMBDA e : e.k \in Range(recent)))]

\* the update track_file_access makes to the loaded cache
Touch(cache, path_str) ==
    LET dropped == IF path_str \in Range(cache.recent_files.items)
                   THEN RemoveFirst(cache.recent_files.items, path_str)
                   ELSE cache.recent_files.items
        recent == Take(<<path_str>> \o dropped, MaxRecent)
        hot == DictSet(cache.hot_files.items, path_str,
                       DictGet(cache.hot_files.items, path_str, 0) + 1)
    IN  [cache EXCEPT !.recent_files = JList(recent), !.hot_files = JObj(hot)]

track_file_access(path) ==
    LET saved == save_cache(Touch(load_cache(disk), path), clock + 1)
    IN  /\ disk' = saved.file
        /\ mem' = saved.cache
        /\ clock' = clock + 1
        /\ result' = [op |-> "track_file_access", path |-> path]
        /\ history' = Append(history, path)

(***************************************************************************)
(* Tracking runs from an empty cache.  File names are interchangeable, so  *)
(* a file not tracked before is always the next unused name.               *)
(***************************************************************************)
Tracked == Range(history)

Reaccesses == Len(history) - Cardinality(Tracked)

\* no cache file yet, nothing called
EmptyCache ==
    /\ disk = Absent
    /\ clock = 0
    /\ mem = ContextCache
    /\ result = [op |-> "none"]
    /\ history = <<>>

\* the runner is not in use
NoRunner ==
    /\ cmdline = <<>>
    /\ module = [kind |-> "none"]
    /\ sysargv = <<>>
    /\ rc = -1
    /\ imports = <<>>
    /\ runs = <<>>

\* no project file is looked at
NoProject == fs = <<>>

\* the vector index is not in use
NoIndex ==
    /\ tree = <<>>
    /\ persisted = {}
    /\ ecache = <<>>
    /\ work = {}
    /\ todo = {}
    /\ run = [phase |-> "idle"]
    /\ summary = [runs |-> 0]
    /\ synced = FALSE
    /\ edits = 0
    /\ seen = [loaded |-> FALSE]

InitTrack == EmptyCache /\ NoRunner /\ NoProject /\ NoIndex

TrackNew ==
    /\ Cardinality(Tracked) < NumFiles
    /\ track_file_access(RelPath(Cardinality(Tracked) + 1))
    /\ UNCHANGED nonCacheVars

TrackAgain ==
    /\ Reaccesses < MaxReaccess
    /\ \E p \in Tracked : track_file_access(p)
    /\ UNCHANGED nonCacheVars

NextTrack == TrackNew \/ TrackAgain

SpecTrack == InitTrack /\ [][NextTrack]_vars

\* the state the next load_cache observes
Persisted == load_cache(disk)

\* position of the last call that tracked p
LastAccess(p) ==
    LET at == {i \in 1..Len(history) : history[i] = p}
    IN  CHOOSE i \in at : \A j \in at : j <= i

\* number of calls that tracked p
Count(p) == Cardinality({i \in 1..Len(history) : history[i] = p})

\* C9: from an empty cache, after any sequence of track_file_access calls the
\* persisted recent_files holds at most 20 paths, none twice, the path
\* tracked last at index 0, in order of last access (most recent first); a
\* tracked path is missing from it only when the list is full and every
\* listed path was accessed later, so the cap evicts exactly the least
\* recently accessed path.
C9_RecentFilesAreTheLatest ==
    LET recent == Persisted.recent_files.items
        n == Len(recent)
        tracked == Tracked
        listed == Range(recent)
    IN  /\ n <= 20
        /\ Cardinality(listed) = n
        /\ listed \subseteq tracked
        /\ history # <<>> => recent[1] = history[Len(history)]
        /\ \A i \in 1..(n - 1) : LastAccess(recent[i]) > LastAccess(recent[i + 1])
        /\ \A q \in tracked \ listed :
              n = 20 /\ LastAccess(q) < LastAccess(recent[n])

\* a 21st distinct path was tracked after the first path was touched again:
\* the second path, then the least recently accessed, is the one evicted
C9_Witness ==
    /\ Cardinality(Tracked) = 21
    /\ Len(Persisted.recent_files.items) = 20
    /\ RelPath(1) \in Range(Persisted.recent_files.items)
    /\ RelPath(2) \notin Range(Persisted.recent_files.items)

\* C10: from an empty cache, after any series of track_file_access calls
\* hot_files has exactly the paths ever tracked as keys, each with the number
\* of calls made with it as its count (so no count drops and no entry goes
\* while calls are added), also for the paths the cap evicted from
\* recent_files; every path of recent_files is a key with a count >= 1.
C10_HotFilesCountEveryCall ==
    LET cache == Persisted
        hot == cache.hot_files.items
        tracked == Tracked
    IN  /\ DictKeys(hot) = tracked
        /\ Len(hot) = Cardinality(tracked)
        /\ \A i \in 1..Len(hot) : hot[i].v = Count(hot[i].k)
        /\ \A p \in Range(cache.recent_files.items) :
              \E i \in 1..Len(hot) : hot[i].k = p /\ hot[i].v >= 1

\* a path tracked twice has been evicted from recent_files
C10_Witness ==
    \E p \in Tracked \ Range(Persisted.recent_files.items) :
        Count(p) = 2 /\ DictGet(Persisted.hot_files.items, p, 0) = 2

(***************************************************************************)
(* update_task, and the handlers cut short by a crash of the process.      *)
(* save_cache opens the cache file itself for writing, which truncates it, *)
(* and json.dump then writes the text into it piece by piece: a process    *)
(* killed in between leaves the first n tokens of the new text.            *)
(***************************************************************************)
update_task(task) ==
    LET saved == save_cache([load_cache(disk) EXCEPT !.last_task = JStr(task)], clock + 1)
    IN  /\ disk' = saved.file
        /\ mem' = saved.cache
        /\ clock' = clock + 1
        /\ result' = [op |-> "update_task", task |-> task]
        /\ UNCHANGED history

\* the file a save_cache killed after n tokens leaves behind
KilledSave(saved, n) == File(Take(saved.file.toks, n))

track_file_access_killed(path, n) ==
    LET saved == save_cache(Touch(load_cache(disk), path), clock + 1)
    IN  /\ n < Len(saved.file.toks)
        /\ disk' = KilledSave(saved, n)
        /\ mem' = saved.cache
        /\ clock' = clock + 1
        /\ result' = [op |-> "killed", path |-> path]
        /\ history' = Append(history, path)

update_task_killed(task, n) ==
    LET saved == save_cache([load_cache(disk) EXCEPT !.last_task = JStr(task)], clock + 1)
    IN  /\ n < Len(saved.file.toks)
        /\ disk' = KilledSave(saved, n)
        /\ mem' = saved.cache
        /\ clock' = clock + 1
        /\ result' = [op |-> "killed", task |-> task]
        /\ UNCHANGED history

Tasks == {"fix the loader"}

\* number of tokens of a saved cache
DumpLen == Len(to_dict(ContextCache))

CrashTrack ==
    /\ clock < MaxSaves
    /\ \E i \in 1..CrashFiles : track_file_access(RelPath(i))
    /\ UNCHANGED nonCacheVars

CrashTask ==
    /\ clock < MaxSaves
    /\ \E task \in Tasks : update_task(task)
    /\ UNCHANGED nonCacheVars

CrashTrackKilled ==
    /\ clock < MaxSaves
    /\ \E i \in 1..CrashFiles, n \in 0..(DumpLen - 1) :
          track_file_access_killed(RelPath(i), n)
    /\ UNCHANGED nonCacheVars

CrashTaskKilled ==
    /\ clock < MaxSaves
    /\ \E task \in Tasks, n \in 0..(DumpLen - 1) : update_task_killed(task, n)
    /\ UNCHANGED nonCacheVars

NextCrash == CrashTrack \/ CrashTask \/ CrashTrackKilled \/ CrashTaskKilled

SpecCrash == InitTrack /\ [][NextCrash]_vars

\* C3: a save is atomic with respect to crashes: whatever step a handler
\* takes, killed or not, the next load_cache observes either the state it
\* observed before the step or the complete state the handler was saving.
C3_SaveIsAtomic ==
    [][load_cache(disk') = load_cache(disk) \/ load_cache(disk') = mem']_vars

(***************************************************************************)
(* load_cache on an arbitrary cache file.                                  *)
(***************************************************************************)
LoadTokens ==
    {LBrace, RBrace, Key("recent_files"), Key("bogus"),
     Val(JList(<<RelPath(1)>>)), Val(JNum(5)), Junk}

\* every token text of at most MaxTokens tokens
ShortTexts == UNION {[1..n -> LoadTokens] : n \in 0..MaxTokens}

MemberKeys == {"recent_files", "last_query", "bogus"}

MemberVals == {JList(<<RelPath(1)>>), JStr("q"), JNum(5)}

RECURSIVE ObjectBody(_)
ObjectBody(ms) ==
    IF ms = <<>> THEN <<>>
    ELSE <<Key(ms[1][1]), Val(ms[1][2])>> \o ObjectBody(Tail(ms))

\* every JSON object of at most MaxMembers members
ObjectTexts ==
    {<<LBrace>> \o ObjectBody(ms) \o <<RBrace>> :
        ms \in UNION {[1..n -> MemberKeys \X MemberVals] : n \in 0..MaxMembers}}

\* a cache as save_cache wrote it, whole or cut short
SavedTexts ==
    LET text == save_cache(Touch(ContextCache, RelPath(1)), 1).file.toks
    IN  {Take(text, n) : n \in 0..Len(text)}

FileContents ==
    {Absent, Unreadable} \cup {File(t) : t \in ShortTexts \cup ObjectTexts \cup SavedTexts}

InitLoad ==
    /\ disk \in FileContents
    /\ clock = 0
    /\ mem = ContextCache
    /\ result = [op |-> "none"]
    /\ history = <<>>
    /\ NoRunner
    /\ NoProject
    /\ NoIndex

LoadCache ==
    /\ result.op = "none"
    /\ result' = [op |-> "load_cache", outcome |-> load_cache_call(disk)]
    /\ UNCHANGED <<disk, clock, mem, history>>
    /\ UNCHANGED nonCacheVars

NextLoad == LoadCache

SpecLoad == InitLoad /\ [][NextLoad]_vars

\* the keys of an object text
TextKeys(toks) == {toks[i].name : i \in {k \in 2..(Len(toks) - 1) : k % 2 = 0}}

\* the file holds a JSON object whose keys are all ContextCache fields
HoldsCacheObject(file) ==
    /\ file.kind = "text"
    /\ IsObjectText(file.toks)
    /\ TextKeys(file.toks) \subseteq Fields

\* C2: whatever the cache file holds, load_cache returns a ContextCache and
\* does not raise; when the file is absent, unreadable, no valid JSON, or JSON
\* other than an object whose keys are all ContextCache fields, it returns
\* the default empty cache.
C2_LoadCacheNeverFails ==
    result.op = "load_cache" =>
        /\ ~result.outcome.raised
        /\ DOMAIN result.outcome.value = Fields
        /\ ~HoldsCacheObject(disk) => result.outcome.value = ContextCache

\* a JSON object with a recent_files list and a key that is no field was
\* loaded as the default cache
C2_Witness ==
    /\ result.op = "load_cache"
    /\ disk.kind = "text"
    /\ IsObjectText(disk.toks)
    /\ TextKeys(disk.toks) = {"recent_files", "bogus"}
    /\ disk.toks[3] = Val(JList(<<RelPath(1)>>))
    /\ result.outcome = [raised |-> FALSE, value |-> ContextCache]

(***************************************************************************)
(* The runner: mcp.main                                                    *)
(***************************************************************************)
CommandTable ==
    << <<"test", "auto_test">>, <<"docs", "auto_docs">>, <<"deadcode", "dead_code">>,
       <<"deps", "deps">>, <<"summarize", "summarize">>, <<"changelog", "changelog">>,
       <<"review", "review">>, <<"context", "context">>, <<"refactor", "refactor">>,
       <<"apidocs", "api_docs">>, <<"coverage", "doc_coverage">>,
       <<"security", "security">>, <<"profile", "profile">>, <<"find", "finder">>,
       <<"errors", "errors">>, <<"migrate", "migrate">>,
       <<"architecture", "architecture">>, <<"arch", "architecture">>,
       <<"fix", "fix">>, <<"index", "vector_store">>, <<"search", "vector_store">>,
       <<"pattern", "astgrep">>, <<"parse", "treesitter_utils">>,
       <<"embed", "embeddings">>, <<"watch", "watcher">>,
       <<"autocontext", "autocontext">>, <<"auto", "autocontext">>,
       <<"index-all", "index_all">>, <<"git-history", "git_index">>,
       <<"blame", "git_index">>, <<"todos", "todo_index">>, <<"impact", "impact">>,
       <<"test-coverage", "coverage_index">>, <<"doc-index", "doc_index">>,
       <<"config-index", "config_index">>, <<"remember", "memory">>,
       <<"recall", "memory">>, <<"forget", "memory">>, <<"learn", "learning">>,
       <<"predict-bugs", "predict">>, <<"risk-score", "predict">>,
       <<"search-all", "multi_repo">>, <<"repos", "multi_repo">>,
       <<"github-action", "cicd">>, <<"pipeline", "cicd">>, <<"test-gen", "test_gen">>,
       <<"setup", "setup">>, <<"warm", "warm">>, <<"auto-learn", "auto_learn">> >>

COMMANDS ==
    [c \in {CommandTable[i][1] : i \in 1..Len(CommandTable)} |->
        CommandTable[CHOOSE i \in 1..Len(CommandTable) : CommandTable[i][1] = c][2]]

HelpWords == {"help", "-h", "--help"}

\* f'scripts/{module_name}.py'
ScriptName(module_name) == "scripts/" \o module_name \o ".py"

\* sys.argv[2:]
Rest(argv) == SubSeq(argv, 3, Len(argv))

\* main with sys.argv rewritten to keep the command word
main_keeps_command(argv, mod) ==
    IF Len(argv) < 2 \/ argv[2] \in HelpWords
    THEN [rc |-> 0, imports |-> <<>>, runs |-> <<>>, sysargv |-> argv]
    ELSE IF argv[2] \notin DOMAIN COMMANDS
    THEN [rc |-> 1, imports |-> <<>>, runs |-> <<>>, sysargv |-> argv]
    ELSE LET module_name == COMMANDS[argv[2]]
             rewritten == <<ScriptName(module_name)>> \o Tail(argv)
             call == [module |-> module_name, argv |-> rewritten]
         IN  CASE mod.kind = "import_error" ->
                    [rc |-> 1, imports |-> <<>>, runs |-> <<>>, sysargv |-> argv]
               [] mod.kind = "no_main" ->
                    [rc |-> 1, imports |-> <<module_name>>, runs |-> <<>>,
                     sysargv |-> rewritten]
               [] mod.kind = "returns_none" ->
                    [rc |-> 0, imports |-> <<module_name>>, runs |-> <<call>>,
                     sysargv |-> rewritten]
               [] mod.kind = "returns" ->
                    [rc |-> mod.code, imports |-> <<module_name>>, runs |-> <<call>>,
                     sysargv |-> rewritten]
               [] mod.kind = "raises" ->
                    [rc |-> 1, imports |-> <<module_name>>, runs |-> <<call>>,
                     sysargv |-> rewritten]

\* main: what it returns, imports and calls for a command line, the module
\* it maps to behaving as mod says
main(argv, mod) ==
    IF Len(argv) < 2 \/ argv[2] \in HelpWords
    THEN [rc |-> 0, imports |-> <<>>, runs |-> <<>>, sysargv |-> argv]
    ELSE IF argv[2] \notin DOMAIN COMMANDS
    THEN [rc |-> 1, imports |-> <<>>, runs |-> <<>>, sysargv |-> argv]
    ELSE LET module_name == COMMANDS[argv[2]]
             rewritten == <<ScriptName(module_name)>> \o Rest(argv)
             call == [module |-> module_name, argv |-> rewritten]
         IN  CASE mod.kind = "import_error" ->
                    [rc |-> 1, imports |-> <<>>, runs |-> <<>>, sysargv |-> argv]
               [] mod.kind = "no_main" ->
                    [rc |-> 1, imports |-> <<module_name>>, runs |-> <<>>,
                     sysargv |-> rewritten]
               [] mod.kind = "returns_none" ->
                    [rc |-> 0, imports |-> <<module_name>>, runs |-> <<call>>,
                     sysargv |-> rewritten]
               [] mod.kind = "returns" ->
                    [rc |-> mod.code, imports |-> <<module_name>>, runs |-> <<call>>,
                     sysargv |-> rewritten]
               [] mod.kind = "raises" ->
                    [rc |-> 1, imports |-> <<module_name>>, runs |-> <<call>>,
                     sysargv |-> rewritten]

\* what importing and running a module may do
ModuleBehaviours ==
    {[kind |-> "import_error"], [kind |-> "no_main"], [kind |-> "returns_none"],
     [kind |-> "returns", code |-> 0], [kind |-> "returns", code |-> 2],
     [kind |-> "raises"]}

CommandWords == DOMAIN COMMANDS \cup HelpWords \cup {"bogus", "--auto"}

ArgWords == {"--auto", "src", "help"}

\* the program name, then nothing, or a first word and at most MaxArgs arguments
CmdLines ==
    {<<"mcp.py">>} \cup
    {<<"mcp.py", w>> \o args :
        w \in CommandWords, args \in UNION {[1..n -> ArgWords] : n \in 0..MaxArgs}}

InitMain ==
    /\ EmptyCache
    /\ NoProject
    /\ NoIndex
    /\ cmdline \in CmdLines
    /\ module \in ModuleBehaviours
    /\ sysargv = cmdline
    /\ rc = -1
    /\ imports = <<>>
    /\ runs = <<>>

Main ==
    /\ rc = -1
    /\ LET out == main(sysargv, module)
       IN  /\ rc' = out.rc
           /\ imports' = out.imports
           /\ runs' = out.runs
           /\ sysargv' = out.sysargv
    /\ UNCHANGED <<cmdline, module>>
    /\ UNCHANGED nonMainVars

NextMain == Main

SpecMain == InitMain /\ [][NextMain]_vars

\* C6 as stated: with no command or a help word main returns 0 and imports and
\* runs nothing; with a command that is no key of COMMANDS it returns 1 and
\* imports and runs nothing; otherwise it imports exactly COMMANDS[command]
\* and calls its main exactly once, sys.argv being the script name followed by
\* the remaining arguments in their order.
C6_HandlerRunsForEveryKnownCommand ==
    rc # -1 =>
        IF Len(cmdline) < 2 \/ cmdline[2] \in {"help", "-h", "--help"}
        THEN rc = 0 /\ imports = <<>> /\ runs = <<>>
        ELSE IF cmdline[2] \notin DOMAIN COMMANDS
        THEN rc = 1 /\ imports = <<>> /\ runs = <<>>
        ELSE /\ imports = <<COMMANDS[cmdline[2]]>>
             /\ runs = <<[module |-> COMMANDS[cmdline[2]],
                          argv |-> <<ScriptName(COMMANDS[cmdline[2]])>> \o Rest(cmdline)]>>

\* C6 amended: as above, but for a known command main calls the handler
\* exactly once only when the import of COMMANDS[command] succeeds and the
\* module has a main; when the import fails nothing is imported, and when it
\* fails or the module has no main, no handler runs and main returns 1.
C6_HandlerRunsOnlyForKnownCommand ==
    rc # -1 =>
        IF Len(cmdline) < 2 \/ cmdline[2] \in {"help", "-h", "--help"}
        THEN rc = 0 /\ imports = <<>> /\ runs = <<>>
        ELSE IF cmdline[2] \notin DOMAIN COMMANDS
        THEN rc = 1 /\ imports = <<>> /\ runs = <<>>
        ELSE IF module.kind = "import_error"
        THEN rc = 1 /\ imports = <<>> /\ runs = <<>>
        ELSE IF module.kind = "no_main"
        THEN rc = 1 /\ imports = <<COMMANDS[cmdline[2]]>> /\ runs = <<>>
        ELSE /\ imports = <<COMMANDS[cmdline[2]]>>
             /\ runs = <<[module |-> COMMANDS[cmdline[2]],
                          argv |-> <<ScriptName(COMMANDS[cmdline[2]])>> \o Rest(cmdline)]>>

\* the handler of a known command ran once, with two different arguments
\* passed on in their order
C6_Witness ==
    /\ rc = 0
    /\ cmdline = <<"mcp.py", "auto", "--auto", "src">>
    /\ imports = <<"autocontext">>
    /\ runs = <<[module |-> "autocontext",
                 argv |-> <<"scripts/autocontext.py", "--auto", "src">>]>>
    /\ sysargv = <<"scripts/autocontext.py", "--auto", "src">>

(***************************************************************************)
(* The context sources: recent files, hot files, semantic search.          *)
(* A content is its origin and the number of words content.split() gives.  *)
(***************************************************************************)
Root == "/r"

AbsPath(i) == Root \o "/" \o RelPath(i)

\* Path.is_absolute
IsAbsolute(p) == p \in {AbsPath(i) : i \in 1..ContextFiles}

\* str(root / path) for a relative path, str(path) for an absolute one
Resolve(p) == IF IsAbsolute(p) THEN p ELSE Root \o "/" \o p

\* path.exists() and the file can be read
Readable(p) == p \in DOMAIN fs /\ fs[p] >= 0

FileContent(p) == [origin |-> "file", words |-> fs[p]]

\* the loop of get_recent_context and get_hot_context over the cached paths
RECURSIVE ReadFiles(_)
ReadFiles(paths) ==
    IF paths = <<>> THEN <<>>
    ELSE LET path == Resolve(Head(paths))
         IN  (IF Readable(path)
              THEN <<[path |-> path, content |-> FileContent(path)]>>
              ELSE <<>>) \o ReadFiles(Tail(paths))

RECURSIVE TokenCount(_)
TokenCount(files) ==
    IF files = <<>> THEN 0 ELSE Head(files).content.words + TokenCount(Tail(files))

ContextResult(files, source) ==
    [files |-> files, token_count |-> TokenCount(files), source |-> source]

get_recent_context(limit, file) ==
    ContextResult(ReadFiles(Take(load_cache(file).recent_files.items, limit)), "recent")

\* sorted(items, key=count, reverse=True): stable, so equal counts keep
\* their insertion order
SortedByCount(items) ==
    LET rank(i) == Cardinality({j \in 1..Len(items) :
                        items[j].v > items[i].v \/ (items[j].v = items[i].v /\ j < i)})
    IN  [r \in 1..Len(items) |-> items[CHOOSE i \in 1..Len(items) : rank(i) = r - 1]]

RECURSIVE DictKeySeq(_)
DictKeySeq(items) ==
    IF items = <<>> THEN <<>> ELSE <<Head(items).k>> \o DictKeySeq(Tail(items))

get_hot_context(limit, file) ==
    ContextResult(
        ReadFiles(DictKeySeq(Take(SortedByCount(load_cache(file).hot_files.items), limit))),
        "hot")

\* VectorStore.search(query, k): at most k results, best first
VectorSearch(ranked, k) == Take(ranked, k)

\* the try block of get_semantic_context: the import, load() and search()
SemanticSearch(store, limit) ==
    CASE store.kind = "import_error" -> [raised |-> TRUE, files |-> <<>>]
      [] store.kind = "load_raises" -> [raised |-> TRUE, files |-> <<>>]
      [] store.kind = "load_false" -> [raised |-> FALSE, files |-> <<>>]
      [] store.kind = "search_raises" -> [raised |-> TRUE, files |-> <<>>]
      [] store.kind = "ok" -> [raised |-> FALSE, files |-> VectorSearch(store.ranked, limit)]

\* get_semantic_context letting the failure of the index through
get_semantic_context_uncaught(query, limit, store, file, now) ==
    LET found == SemanticSearch(store, limit)
    IN  [raised |-> found.raised,
         value |-> ContextResult(found.files, "semantic"),
         saved |-> IF found.raised
                   THEN [cache |-> load_cache(file), file |-> file]
                   ELSE save_cache([load_cache(file) EXCEPT !.last_query = JStr(query)], now)]

\* get_semantic_context: `except Exception: pass` leaves files empty; the
\* query is then recorded in the cache and the cache saved
get_semantic_context(query, limit, store, file, now) ==
    LET found == SemanticSearch(store, limit)
        files == IF found.raised THEN <<>> ELSE found.files
    IN  [raised |-> FALSE,
         value |-> ContextResult(files, "semantic"),
         saved |-> save_cache([load_cache(file) EXCEPT !.last_query = JStr(query)], now)]

(***************************************************************************)
(* get_auto_context: the merge of the three sources under a token budget.  *)
(* all_files is the dict in insertion order; log records every candidate   *)
(* the loops looked at, with tokens_used after it.                         *)
(***************************************************************************)
\* one round of a loop admitting even when the budget is reached exactly
ConsiderAtMost(acc, cand, source, token_budget, unseen_only) ==
    LET words == cand.content.words
        admit == /\ unseen_only => cand.path \notin DictKeys(acc.all_files)
                 /\ acc.tokens_used + words <= token_budget
        used == IF admit THEN acc.tokens_used + words ELSE acc.tokens_used
    IN  [all_files |-> IF admit THEN DictSet(acc.all_files, cand.path, cand.content)
                       ELSE acc.all_files,
         tokens_used |-> used,
         log |-> Append(acc.log, [source |-> source, path |-> cand.path,
                                  content |-> cand.content, admitted |-> admit,
                                  tokens_used |-> used])]

\* one round of a loop that overwrites a path it already holds
ConsiderAgain(acc, cand, source, token_budget, unseen_only) ==
    LET words == cand.content.words
        admit == acc.tokens_used + words < token_budget
        used == IF admit THEN acc.tokens_used + words ELSE acc.tokens_used
    IN  [all_files |-> IF admit THEN DictSet(acc.all_files, cand.path, cand.content)
                       ELSE acc.all_files,
         tokens_used |-> used,
         log |-> Append(acc.log, [source |-> source, path |-> cand.path,
                                  content |-> cand.content, admitted |-> admit,
                                  tokens_used |-> used])]

\* one round of a loop: the candidate is admitted if the budget allows it
\* and, in the semantic and hot loops, if its path is not held yet
Consider(acc, cand, source, token_budget, unseen_only) ==
    LET words == cand.content.words
        admit == /\ unseen_only => cand.path \notin DictKeys(acc.all_files)
                 /\ acc.tokens_used + words < token_budget
        used == IF admit THEN acc.tokens_used + words ELSE acc.tokens_used
    IN  [all_files |-> IF admit THEN DictSet(acc.all_files, cand.path, cand.content)
                       ELSE acc.all_files,
         tokens_used |-> used,
         log |-> Append(acc.log, [source |-> source, path |-> cand.path,
                                  content |-> cand.content, admitted |-> admit,
                                  tokens_used |-> used])]

RECURSIVE Merge(_, _, _, _, _)
Merge(acc, files, source, token_budget, unseen_only) ==
    IF files = <<>> THEN acc
    ELSE Merge(Consider(acc, Head(files), source, token_budget, unseen_only),
               Tail(files), source, token_budget, unseen_only)

\* the three stages of get_auto_context
AutoContext(task, token_budget, store, file, now) ==
    LET start == [all_files |-> <<>>, tokens_used |-> 0, log |-> <<>>]
        recent == get_recent_context(3, file)
        a1 == Merge(start, recent.files, "recent", token_budget, FALSE)
        ask == task # "" /\ a1.tokens_used < token_budget
        semantic == get_semantic_context(task, 3, store, file, now)
        a2 == IF ask THEN Merge(a1, semantic.value.files, "semantic", token_budget, TRUE)
              ELSE a1
        file2 == IF ask THEN semantic.saved.file ELSE file
        heat == a2.tokens_used < token_budget
        hot == get_hot_context(2, file2)
        a3 == IF heat THEN Merge(a2, hot.files, "hot", token_budget, TRUE) ELSE a2
    IN  [all_files |-> a3.all_files, tokens_used |-> a3.tokens_used, log |-> a3.log,
         consulted |-> <<"recent">> \o (IF ask THEN <<"semantic">> ELSE <<>>)
                                    \o (IF heat THEN <<"hot">> ELSE <<>>),
         before_semantic |-> a1.tokens_used, before_hot |-> a2.tokens_used,
         asked |-> ask,
         saved |-> IF ask THEN semantic.saved ELSE [cache |-> mem, file |-> file]]

get_auto_context(task, token_budget, store) ==
    \E out \in {AutoContext(task, token_budget, store, disk, clock + 1)} :
        /\ disk' = out.saved.file
        /\ mem' = out.saved.cache
        /\ clock' = IF out.asked THEN clock + 1 ELSE clock
        /\ result' = [op |-> "get_auto_context", task |-> task,
                      token_budget |-> token_budget, store |-> store,
                      all_files |-> out.all_files, tokens_used |-> out.tokens_used,
                      log |-> out.log, consulted |-> out.consulted,
                      before_semantic |-> out.before_semantic,
                      before_hot |-> out.before_hot]
        /\ UNCHANGED history

\* get_semantic_context called on its own (the runner's query form)
semantic_query(query, limit, store) ==
    \E out \in {get_semantic_context(query, limit, store, disk, clock + 1)} :
        /\ disk' = out.saved.file
        /\ mem' = out.saved.cache
        /\ clock' = clock + 1
        /\ result' = [op |-> "get_semantic_context", query |-> query, limit |-> limit,
                      store |-> store, raised |-> out.raised, value |-> out.value]
        /\ UNCHANGED history

(***************************************************************************)
(* Context runs: some files tracked, then one query.                       *)
(***************************************************************************)
ContextPaths == {RelPath(i) : i \in 1..ContextFiles} \cup {AbsPath(1)}

\* the chunks an index may rank: of a tracked file, and of a file never tracked
Chunks ==
    {[path |-> AbsPath(1), content |-> [origin |-> "chunk", words |-> 2]],
     [path |-> "lib.py", content |-> [origin |-> "chunk", words |-> 1]]}

Stores ==
    {[kind |-> "import_error"], [kind |-> "load_raises"], [kind |-> "load_false"],
     [kind |-> "search_raises"]}
    \cup {[kind |-> "ok", ranked |-> r] :
            r \in UNION {[1..n -> Chunks] : n \in 0..MaxRanked}}

Queries == {"", "merge sources"}

Limits == {1, 3, 5}

\* a project file is missing or unreadable (-1) or has one word
FileWords == {-1, 1}

InitContext ==
    /\ EmptyCache
    /\ NoRunner
    /\ NoIndex
    /\ fs \in [{AbsPath(i) : i \in 1..ContextFiles} -> FileWords]

ContextTrack ==
    /\ result.op \in {"none", "track_file_access"}
    /\ Len(history) < MaxTracks
    /\ \E p \in ContextPaths : track_file_access(p)
    /\ UNCHANGED nonCacheVars

ContextAuto ==
    /\ result.op \in {"none", "track_file_access"}
    /\ \E token_budget \in (-1)..MaxBudget, store \in Stores :
          get_auto_context("merge sources", token_budget, store)
    /\ UNCHANGED nonCacheVars

ContextAutoNoTask ==
    /\ result.op \in {"none", "track_file_access"}
    /\ \E token_budget \in (-1)..MaxBudget :
          get_auto_context("", token_budget, [kind |-> "load_false"])
    /\ UNCHANGED nonCacheVars

NextContext == ContextTrack \/ ContextAuto \/ ContextAutoNoTask

SpecContext == InitContext /\ [][NextContext]_vars

\* tokens_used before the i-th candidate of a log
UsedBefore(log, i) == IF i = 1 THEN 0 ELSE log[i - 1].tokens_used

\* the paths the candidates before the i-th were admitted with
HeldBefore(log, i) == {log[j].path : j \in {k \in 1..(i - 1) : log[k].admitted}}

RECURSIVE AdmittedWords(_)
AdmittedWords(log) ==
    IF log = <<>> THEN 0
    ELSE (IF Head(log).admitted THEN Head(log).content.words ELSE 0)
         + AdmittedWords(Tail(log))

\* C7: get_auto_context admits a candidate exactly when tokens_used plus its
\* word count is strictly below token_budget (and, in the semantic and hot
\* loops, its path is not held yet), whatever was rejected before it; so
\* tokens_used, the sum of the word counts admitted, is strictly below
\* token_budget after every admission, and nothing is admitted when
\* token_budget <= 0.
C7_BudgetIsRespected ==
    result.op = "get_auto_context" =>
        LET log == result.log
            budget == result.token_budget
        IN  /\ \A i \in 1..Len(log) :
                  /\ log[i].admitted <=>
                        /\ UsedBefore(log, i) + log[i].content.words < budget
                        /\ log[i].source = "recent" \/ log[i].path \notin HeldBefore(log, i)
                  /\ log[i].tokens_used =
                        UsedBefore(log, i)
                        + (IF log[i].admitted THEN log[i].content.words ELSE 0)
                  /\ log[i].admitted => log[i].tokens_used < budget
            /\ result.tokens_used = AdmittedWords(log)
            /\ budget <= 0 =>
                  result.all_files = <<>> /\ \A i \in 1..Len(log) : ~log[i].admitted

\* a candidate was rejected for the budget and a later, smaller one admitted
C7_Witness ==
    /\ result.op = "get_auto_context"
    /\ \E i, j \in 1..Len(result.log) :
          /\ i < j
          /\ ~result.log[i].admitted
          /\ UsedBefore(result.log, i) + result.log[i].content.words >= result.token_budget
          /\ result.log[j].admitted
          /\ result.log[j].content.words < result.log[i].content.words

SourceRank(source) ==
    CASE source = "recent" -> 1 [] source = "semantic" -> 2 [] source = "hot" -> 3

FromSource(log, source) == {i \in 1..Len(log) : log[i].source = source}

\* the paths admitted, each at its first admission
RECURSIVE AdmissionOrder(_, _)
AdmissionOrder(log, held) ==
    IF log = <<>> THEN <<>>
    ELSE IF Head(log).admitted /\ Head(log).path \notin held
    THEN <<Head(log).path>> \o AdmissionOrder(Tail(log), held \cup {Head(log).path})
    ELSE AdmissionOrder(Tail(log), held)

\* C8: get_auto_context looks at recent files (at most 3) first, then at
\* semantic results (at most 3, only when task is non-empty and tokens_used is
\* below the budget), then at hot files (at most 2, only when tokens_used is
\* below the budget); a path admitted from a higher-priority source is never
\* admitted again nor given another content by a lower-priority one; each path
\* is in the output once, and the paths are in admission order.
C8_SourcesMergeInPriorityOrder ==
    result.op = "get_auto_context" =>
        LET log == result.log
            out == result.all_files
        IN  /\ \A i, j \in 1..Len(log) :
                  i < j => SourceRank(log[i].source) <= SourceRank(log[j].source)
            /\ Cardinality(FromSource(log, "recent")) <= 3
            /\ Cardinality(FromSource(log, "semantic")) <= 3
            /\ Cardinality(FromSource(log, "hot")) <= 2
            /\ result.consulted[1] = "recent"
            /\ FromSource(log, "semantic") # {} => "semantic" \in Range(result.consulted)
            /\ FromSource(log, "hot") # {} => "hot" \in Range(result.consulted)
            /\ "semantic" \in Range(result.consulted) <=>
                  result.task # "" /\ result.before_semantic < result.token_budget
            /\ "hot" \in Range(result.consulted) <=>
                  result.before_hot < result.token_budget
            /\ \A i, j \in 1..Len(log) :
                  (/\ i < j
                   /\ log[i].admitted
                   /\ log[i].path = log[j].path
                   /\ SourceRank(log[i].source) < SourceRank(log[j].source))
                  => /\ ~log[j].admitted
                     /\ DictGet(out, log[i].path, log[j].content) = log[i].content
            /\ Cardinality(DictKeys(out)) = Len(out)
            /\ DictKeySeq(out) = AdmissionOrder(log, {})

\* every source had a candidate admitted, and a semantic result for a path
\* held from the recent files was passed over although the budget allowed it
C8_Witness ==
    /\ result.op = "get_auto_context"
    /\ \A source \in {"recent", "semantic", "hot"} :
          \E i \in FromSource(result.log, source) : result.log[i].admitted
    /\ \E i, j \in 1..Len(result.log) :
          /\ i < j
          /\ result.log[i].source = "recent" /\ result.log[i].admitted
          /\ result.log[j].source = "semantic" /\ ~result.log[j].admitted
          /\ result.log[i].path = result.log[j].path
          /\ result.log[i].content # result.log[j].content
          /\ UsedBefore(result.log, j) + result.log[j].content.words < result.token_budget

(***************************************************************************)
(* Semantic queries: some files tracked, then one get_semantic_context.    *)
(***************************************************************************)
SemanticTrack ==
    /\ result.op \in {"none", "track_file_access"}
    /\ Len(history) < MaxTracksBefore
    /\ \E p \in {RelPath(1), RelPath(2)} : track_file_access(p)
    /\ UNCHANGED nonCacheVars

SemanticQuery ==
    /\ result.op \in {"none", "track_file_access"}
    /\ \E query \in Queries, limit \in Limits, store \in Stores :
          semantic_query(query, limit, store)
    /\ UNCHANGED nonCacheVars

NextSemantic == SemanticTrack \/ SemanticQuery

SpecSemantic == InitTrack /\ [][NextSemantic]_vars

\* the index cannot serve the query
IndexFails(store) ==
    store.kind \in {"import_error", "load_false", "load_raises", "search_raises"}

\* C1: for every query and limit, when the VectorStore cannot be imported,
\* load() returns false, or load() or search() raises, get_semantic_context
\* does not raise and returns a ContextResult with source 'semantic', no files
\* and a token count of 0.
C1_MissingIndexGivesEmptyResult ==
    (result.op = "get_semantic_context" /\ IndexFails(result.store)) =>
        /\ ~result.raised
        /\ result.value = [files |-> <<>>, token_count |-> 0, source |-> "semantic"]

\* a query met an index whose search raised, and came back empty
C1_Witness ==
    /\ result.op = "get_semantic_context"
    /\ result.store.kind = "search_raises"
    /\ result.query # ""
    /\ ~result.raised
    /\ result.value.files = <<>>
    /\ load_cache(disk).last_query = JStr(result.query)

(***************************************************************************)
(* The vector index behind `index`, `search` and get_semantic_context:     *)
(* the Index Store, the Embedding Cache and the Incremental Updater.       *)
(***************************************************************************)
IndexPaths == {"a.py", "b.py"}

\* the contents a file may have
Contents == {1, 2}

\* the file-level fingerprint: a hash of the content
Fingerprint(content) == 100 + content

\* the Chunker: every content starts with the same five lines and goes on
\* with five lines of its own
Chunker(content) ==
    {[start_line |-> 1, end_line |-> 5, content_hash |-> 10],
     [start_line |-> 6, end_line |-> 10, content_hash |-> 10 + content]}

\* the Embedding Provider's vector for a text
Embed(content_hash) == <<content_hash, 1>>

IndexEntry(path, chunk, embedding, fingerprint) ==
    [path |-> path, start_line |-> chunk.start_line, end_line |-> chunk.end_line,
     content_hash |-> chunk.content_hash, embedding |-> embedding,
     file_fingerprint |-> fingerprint]

EntriesOf(index, path) == {e \in index : e.path = path}

\* step 2 of reindex with the comparison of fingerprints left out
UpToDateNever(index, path, content) == FALSE

\* step 2 of reindex: the file's fingerprint matches the one recorded
\* against all of its entries
UpToDate(index, path, content) ==
    /\ EntriesOf(index, path) # {}
    /\ \A e \in EntriesOf(index, path) : e.file_fingerprint = Fingerprint(content)

\* the hashes of a content's chunks the cache does not hold
Misses(content, cache) ==
    {c.content_hash : c \in Chunker(content)} \ DOMAIN cache

\* the cache after the provider embedded the hashes
Cached(cache, hashes) ==
    [h \in DOMAIN cache \cup hashes |-> IF h \in DOMAIN cache THEN cache[h] ELSE Embed(h)]

\* step 3 of reindex: the entries of a file, from the chunks whose vector
\* the cache holds
Rebuilt(index, path, content, cache) ==
    (index \ EntriesOf(index, path)) \cup
    {IndexEntry(path, c, cache[c.content_hash], Fingerprint(content)) :
        c \in {k \in Chunker(content) : k.content_hash \in DOMAIN cache}}

\* step 4 of reindex: the entries of the paths no longer on disk go
Pruned(index) == {e \in index : tree[e.path] # 0}

\* the index saved after every file
CheckpointPerFile(saved, index) == index

\* step 5 of reindex: the index file between two files of a batch. The
\* index is persisted once at the end of the batch, not per file
Checkpoint(saved, index) == saved

\* save: the new index is written aside and renamed into place
Save(index) == persisted' = index

Idle == run.phase = "idle"

\* a file is created, modified or removed while no reindex runs
EditFile ==
    /\ Idle
    /\ edits < MaxEdits
    /\ \E p \in IndexPaths, content \in Contents \cup {0} :
          /\ tree[p] # content
          /\ tree' = [tree EXCEPT ![p] = content]
    /\ edits' = edits + 1
    /\ synced' = FALSE
    /\ UNCHANGED <<persisted, ecache, work, todo, run, summary, seen>>
    /\ UNCHANGED nonIndexVars

\* reindex starts: it loads the index and lists the files
ReindexBegin ==
    /\ Idle
    /\ summary.runs < MaxRuns
    /\ work' = persisted
    /\ todo' = {p \in IndexPaths : tree[p] # 0}
    /\ run' = [phase |-> "running", before |-> persisted, up_to_date |-> synced,
               files |-> Cardinality({p \in IndexPaths : tree[p] # 0}),
               calls |-> 0, changed |-> 0, unchanged |-> 0, failed |-> 0]
    /\ UNCHANGED <<tree, persisted, ecache, summary, synced, edits, seen>>
    /\ UNCHANGED nonIndexVars

\* reindex skips a file whose fingerprint matches
ReindexSkip ==
    /\ run.phase = "running"
    /\ \E p \in todo :
          /\ UpToDate(work, p, tree[p])
          /\ todo' = todo \ {p}
    /\ run' = [run EXCEPT !.unchanged = @ + 1]
    /\ UNCHANGED <<tree, persisted, ecache, work, summary, synced, edits, seen>>
    /\ UNCHANGED nonIndexVars

\* reindex replaces the entries of a file, all chunk vectors being cached
ReindexFromCache ==
    /\ run.phase = "running"
    /\ \E p \in todo :
          /\ ~UpToDate(work, p, tree[p])
          /\ Misses(tree[p], ecache) = {}
          /\ work' = Rebuilt(work, p, tree[p], ecache)
          /\ todo' = todo \ {p}
    /\ persisted' = Checkpoint(persisted, work')
    /\ run' = [run EXCEPT !.changed = @ + 1]
    /\ UNCHANGED <<tree, ecache, summary, synced, edits, seen>>
    /\ UNCHANGED nonIndexVars

\* reindex replaces the entries of a file, the provider embedding the misses
ReindexEmbed ==
    /\ run.phase = "running"
    /\ \E p \in todo :
          /\ ~UpToDate(work, p, tree[p])
          /\ Misses(tree[p], ecache) # {}
          /\ ecache' = Cached(ecache, Misses(tree[p], ecache))
          /\ work' = Rebuilt(work, p, tree[p], ecache')
          /\ todo' = todo \ {p}
    /\ persisted' = Checkpoint(persisted, work')
    /\ run' = [run EXCEPT !.changed = @ + 1, !.calls = @ + 1]
    /\ UNCHANGED <<tree, summary, synced, edits, seen>>
    /\ UNCHANGED nonIndexVars

\* the provider keeps failing: the chunks it was asked for stay unindexed
ReindexEmbedFails ==
    /\ run.phase = "running"
    /\ \E p \in todo :
          /\ ~UpToDate(work, p, tree[p])
          /\ Misses(tree[p], ecache) # {}
          /\ work' = Rebuilt(work, p, tree[p], ecache)
          /\ todo' = todo \ {p}
          /\ run' = [run EXCEPT !.changed = @ + 1, !.calls = @ + 1,
                                !.failed = @ + Cardinality(Misses(tree[p], ecache))]
    /\ persisted' = Checkpoint(persisted, work')
    /\ UNCHANGED <<tree, ecache, summary, synced, edits, seen>>
    /\ UNCHANGED nonIndexVars

\* reindex ends: the entries of removed files go, the index is saved once
ReindexEnd ==
    /\ run.phase = "running"
    /\ todo = {}
    /\ work' = Pruned(work)
    /\ Save(work')
    /\ summary' = [runs |-> summary.runs + 1, up_to_date |-> run.up_to_date,
                   files |-> run.files, calls |-> run.calls,
                   changed |-> run.changed, unchanged |-> run.unchanged,
                   failed |-> run.failed, before |-> run.before, after |-> work']
    /\ synced' = (run.failed = 0)
    /\ run' = [phase |-> "idle"]
    /\ UNCHANGED <<tree, ecache, todo, edits, seen>>
    /\ UNCHANGED nonIndexVars

\* reindex is interrupted between two files: nothing is saved
ReindexCancel ==
    /\ run.phase = "running"
    /\ todo # {}
    /\ run' = [phase |-> "idle"]
    /\ todo' = {}
    /\ work' = {}
    /\ UNCHANGED <<tree, persisted, ecache, summary, synced, edits, seen>>
    /\ UNCHANGED nonIndexVars

\* a search loads the index file
SearchLoad ==
    /\ ~seen.loaded
    /\ seen' = [loaded |-> TRUE, index |-> persisted, during |-> run,
                runs |-> summary.runs]
    /\ UNCHANGED <<tree, persisted, ecache, work, todo, run, summary, synced, edits>>
    /\ UNCHANGED nonIndexVars

\* the search ranks what it loaded and returns
SearchReturn ==
    /\ seen.loaded
    /\ seen' = [loaded |-> FALSE]
    /\ UNCHANGED <<tree, persisted, ecache, work, todo, run, summary, synced, edits>>
    /\ UNCHANGED nonIndexVars

InitIndex ==
    /\ EmptyCache
    /\ NoRunner
    /\ NoProject
    /\ tree = [p \in IndexPaths |-> 0]
    /\ persisted = {}
    /\ ecache = <<>>
    /\ work = {}
    /\ todo = {}
    /\ run = [phase |-> "idle"]
    /\ summary = [runs |-> 0]
    /\ synced = FALSE
    /\ edits = 0
    /\ seen = [loaded |-> FALSE]

NextIndex ==
    \/ EditFile
    \/ ReindexBegin
    \/ ReindexSkip
    \/ ReindexFromCache
    \/ ReindexEmbed
    \/ ReindexEmbedFails
    \/ ReindexEnd
    \/ ReindexCancel
    \/ SearchLoad
    \/ SearchReturn

SpecIndex == InitIndex /\ [][NextIndex]_vars

\* C4: a reindex of a project in which no file was added, modified or
\* removed since the preceding reindex completed without failure skips every
\* file as unchanged, calls the Embedding Provider zero times (so far while
\* it runs, and in all once it is done) and leaves the saved index as it was.
C4_ReindexIsIdempotent ==
    /\ (run.phase = "running" /\ run.up_to_date) =>
          /\ run.calls = 0
          /\ run.changed = 0
          /\ work = run.before
          /\ persisted = run.before
    /\ (summary.runs > 0 /\ summary.up_to_date) =>
          /\ summary.calls = 0
          /\ summary.unchanged = summary.files
          /\ summary.after = summary.before

\* a reindex of two indexed files, none changed since, has completed
C4_Witness ==
    /\ summary.runs > 1
    /\ summary.up_to_date
    /\ summary.files = 2
    /\ summary.unchanged = 2
    /\ Cardinality(summary.after) >= 3
    /\ Idle

====
